---------------------------- MODULE Spec2Model ----------------------------
(***************************************************************************)
(* Model of src/src/App.js: the two React components of the URL shortener  *)
(* front end.                                                              *)
(*                                                                         *)
(*   UrlShortenerForm  (App.js 41-126)  the shortening flow                *)
(*   AdminPage         (App.js 130-196) the listing flow                   *)
(*                                                                         *)
(* Each useState cell is a variable.  Every await / promise / timer is a   *)
(* suspension point of the single-threaded event loop, so every handler is *)
(* cut into the steps between its suspension points: the synchronous part  *)
(* that runs on the user event, and the continuation that runs when the    *)
(* promise settles or the timer expires.  The two components share no      *)
(* state; they are modelled side by side, one mount of each.               *)
(***************************************************************************)
EXTENDS Naturals, Sequences, FiniteSets, TLC

(* ------------------------------ bounds -------------------------------- *)
\* pending clipboard.writeText promises kept at once
MaxWrites == 2
\* pending setTimeout callbacks kept at once
MaxTimers == 3
\* longest body the listing endpoint answers with
MaxRecords == 2

(* ------------------------- program constants -------------------------- *)
\* setTimeout(..., 2000): the acknowledgment delay, in seconds
AckDelay == 2

ValidationMsg == "Please enter a URL to shorten."
FailMsg == "Failed to shorten URL. Please check the link and try again."
CopiedMsg == "Copied!"
CopyFailedMsg == "Failed to copy!"
FormatMsg == "Received an invalid format from the server."
FetchMsg == "Failed to fetch URL list."

(* --------------------------- JavaScript values ------------------------ *)
\* What reading a property of an object gives: undefined when the object
\* does not have it, else the string it holds.
Undefined == [defined |-> FALSE, str |-> ""]
Str(s) == [defined |-> TRUE, str |-> s]

\* Values that res.data of the POST can take, and that the shortUrl state
\* cell therefore holds: null, the empty string (an empty body), or an
\* object; an object may or may not carry a shortUrl property, and may
\* carry further properties the client passes through untouched.
JsNull == [type |-> "null", shortUrl |-> Undefined, rest |-> "none"]
JsEmptyString == [type |-> "string", shortUrl |-> Undefined, rest |-> "none"]
JsObject(s, more) == [type |-> "object", shortUrl |-> s, rest |-> more]

\* JavaScript truthiness, as used by `shortUrl && (...)`: null and '' are
\* falsy, every object is truthy.
Truthy(v) == v.type = "object"

\* writeText(v) writes the string v converts to: undefined becomes the
\* text "undefined".
ToText(v) == IF v.defined THEN v.str ELSE "undefined"

LongUrls == {"", "https://example.com"}
ShortUrls == {"https://s/abc"}

PostBodies ==
    {JsNull, JsEmptyString, JsObject(Undefined, "none")}
        \cup {JsObject(Str(s), m) : s \in ShortUrls, m \in {"none", "more"}}

\* What the awaited axios.post promise settles with: it resolves on a 2xx
\* status and rejects on any other status or on a transport error.
PostResolutions == [kind : {"2xx"}, data : PostBodies]
PostRejections == [kind : {"non2xx", "network"}, data : {JsNull}]
NoRes == [kind |-> "none", data |-> JsNull]

(* ------------------------------- state -------------------------------- *)
VARIABLES
    \* UrlShortenerForm
    longUrl,      \* useState('')     the input text
    shortUrl,     \* useState(null)   the stored response body
    loading,      \* useState(false)  the in-flight flag
    error,        \* useState('')     the error message
    copySuccess,  \* useState('')     the acknowledgment
    inflight,     \* POST requests issued and not yet settled
    res,          \* what the latest handleSubmit's await settled with
    writes,       \* clipboard writes issued and not yet settled
    clipboard,    \* the system clipboard
    timers,       \* seconds left of each pending setTimeout, oldest first
    staleRevert,  \* the latest timer callback cleared a younger "Copied!"
    \* AdminPage
    urls,         \* useState([])
    adminLoading, \* useState(true)
    adminError,   \* useState('')
    adminGet,     \* the GET of the mount effect: unsent, pending, settled
    adminRes      \* what the GET settled with

formVars == <<longUrl, shortUrl, loading, error, copySuccess, inflight, res,
              writes, clipboard, timers, staleRevert>>
adminVars == <<urls, adminLoading, adminError, adminGet, adminRes>>
vars == <<formVars, adminVars>>

(* ------------------------- listing endpoint --------------------------- *)
UrlRecords ==
    { [_id |-> "a1", originalUrl |-> "https://example.com",
       shortUrl |-> "https://s/abc", clicks |-> 0],
      [_id |-> "b2", originalUrl |-> "https://example.org",
       shortUrl |-> "https://s/xyz", clicks |-> 7] }

RecordLists == UNION { [1..n -> UrlRecords] : n \in 0..MaxRecords }

\* res.data of the GET: a JSON array, or some other JSON value (which may
\* well wrap records, as in { urls: [...] }).
GetBodies == [isArray : BOOLEAN, items : RecordLists]
GetResolutions == [kind : {"2xx"}, data : GetBodies]
GetRejections ==
    [kind : {"non2xx", "network"}, data : {[isArray |-> FALSE, items |-> <<>>]}]
NoGetRes == [kind |-> "none", data |-> [isArray |-> FALSE, items |-> <<>>]]

\* (variant: the shape of the body is not looked at)
ArrayIsArray_Always(d) == TRUE
ArrayIsArray(d) == d.isArray

(* -------------------------------- Init -------------------------------- *)
Init ==
    /\ longUrl = ""
    /\ shortUrl = JsNull
    /\ loading = FALSE
    /\ error = ""
    /\ copySuccess = ""
    /\ inflight = <<>>
    /\ res = NoRes
    /\ writes = <<>>
    /\ clipboard = ""
    /\ timers = <<>>
    /\ staleRevert = FALSE
    /\ urls = <<>>
    /\ adminLoading = TRUE
    /\ adminError = ""
    /\ adminGet = "unsent"
    /\ adminRes = NoGetRes

(* ------------------------- UrlShortenerForm --------------------------- *)
\* What the form renders from its state (App.js 80-125).
\* (variant: the button without disabled={loading})
SubmitDisabled_Never == FALSE
SubmitDisabled == loading
ShowsError == error # ""
ShowsResult == Truthy(shortUrl)

\* onChange={(e) => setLongUrl(e.target.value)}
setLongUrl(v) ==
    /\ longUrl' = v
    /\ UNCHANGED <<shortUrl, loading, error, copySuccess, inflight, res,
                   writes, clipboard, timers, staleRevert>>
    /\ UNCHANGED adminVars

\* (variant: the empty-input branch without its return)
handleSubmit_NoReturn ==
    /\ ~SubmitDisabled
    /\ shortUrl' = JsNull
    /\ copySuccess' = ""
    /\ staleRevert' = FALSE
    /\ res' = NoRes
    /\ error' = IF longUrl = "" THEN ValidationMsg ELSE ""
    /\ loading' = TRUE
    /\ inflight' = Append(inflight, [longUrl |-> longUrl])
    /\ UNCHANGED <<longUrl, writes, clipboard, timers>>
    /\ UNCHANGED adminVars

\* (variant: without setError(''))
handleSubmit_KeepsError ==
    /\ ~SubmitDisabled
    /\ shortUrl' = JsNull
    /\ copySuccess' = ""
    /\ staleRevert' = FALSE
    /\ res' = NoRes
    /\ IF longUrl = ""
         THEN /\ error' = ValidationMsg
              /\ UNCHANGED <<loading, inflight>>
         ELSE /\ UNCHANGED error
              /\ loading' = TRUE
              /\ inflight' = Append(inflight, [longUrl |-> longUrl])
    /\ UNCHANGED <<longUrl, writes, clipboard, timers>>
    /\ UNCHANGED adminVars

\* (variant: without setShortUrl(null))
handleSubmit_KeepsResult ==
    /\ ~SubmitDisabled
    /\ UNCHANGED shortUrl
    /\ copySuccess' = ""
    /\ staleRevert' = FALSE
    /\ res' = NoRes
    /\ IF longUrl = ""
         THEN /\ error' = ValidationMsg
              /\ UNCHANGED <<loading, inflight>>
         ELSE /\ error' = ""
              /\ loading' = TRUE
              /\ inflight' = Append(inflight, [longUrl |-> longUrl])
    /\ UNCHANGED <<longUrl, writes, clipboard, timers>>
    /\ UNCHANGED adminVars

\* handleSubmit up to its await: the form's submit event, which the browser
\* delivers only while the submit button is enabled.
handleSubmit ==
    /\ ~SubmitDisabled
    /\ shortUrl' = JsNull
    /\ copySuccess' = ""
    /\ staleRevert' = FALSE
    /\ res' = NoRes
    /\ IF longUrl = ""
         THEN /\ error' = ValidationMsg
              /\ UNCHANGED <<loading, inflight>>
         ELSE /\ error' = ""
              /\ loading' = TRUE
              /\ inflight' = Append(inflight, [longUrl |-> longUrl])
    /\ UNCHANGED <<longUrl, writes, clipboard, timers>>
    /\ UNCHANGED adminVars

\* (variant: setShortUrl(res.data.shortUrl))
PostResolve_StoresField(r) ==
    /\ inflight # <<>>
    /\ inflight' = Tail(inflight)
    /\ res' = r
    /\ shortUrl' = [type |-> "string", shortUrl |-> Undefined, rest |-> "none"]
    /\ loading' = FALSE
    /\ UNCHANGED <<longUrl, error, copySuccess, writes, clipboard, timers,
                   staleRevert>>
    /\ UNCHANGED adminVars

\* The await resolves: the try branch, then finally.
PostResolve(r) ==
    /\ inflight # <<>>
    /\ inflight' = Tail(inflight)
    /\ res' = r
    /\ shortUrl' = r.data
    /\ loading' = FALSE
    /\ UNCHANGED <<longUrl, error, copySuccess, writes, clipboard, timers,
                   staleRevert>>
    /\ UNCHANGED adminVars

\* The await rejects: the catch branch, then finally.
PostReject(r) ==
    /\ inflight # <<>>
    /\ inflight' = Tail(inflight)
    /\ res' = r
    /\ error' = FailMsg
    /\ loading' = FALSE
    /\ UNCHANGED <<longUrl, shortUrl, copySuccess, writes, clipboard, timers,
                   staleRevert>>
    /\ UNCHANGED adminVars

\* copyToClipboard(shortUrl.shortUrl) up to the promise: the Copy button
\* exists only while the result block is rendered.
copyToClipboard ==
    /\ ShowsResult
    /\ Len(writes) < MaxWrites
    /\ writes' = Append(writes, ToText(shortUrl.shortUrl))
    /\ UNCHANGED <<longUrl, shortUrl, loading, error, copySuccess, inflight,
                   res, clipboard, timers, staleRevert>>
    /\ UNCHANGED adminVars

\* (variant: the pending reverts are cancelled before the new one is set)
WriteFulfilled_Cancels ==
    /\ writes # <<>>
    /\ Len(timers) < MaxTimers
    /\ writes' = Tail(writes)
    /\ clipboard' = Head(writes)
    /\ copySuccess' = CopiedMsg
    /\ timers' = <<AckDelay>>
    /\ staleRevert' = FALSE
    /\ UNCHANGED <<longUrl, shortUrl, loading, error, inflight, res>>
    /\ UNCHANGED adminVars

\* writeText fulfils: the first callback of .then
WriteFulfilled ==
    /\ writes # <<>>
    /\ Len(timers) < MaxTimers
    /\ writes' = Tail(writes)
    /\ clipboard' = Head(writes)
    /\ copySuccess' = CopiedMsg
    /\ timers' = Append(timers, AckDelay)
    /\ staleRevert' = FALSE
    /\ UNCHANGED <<longUrl, shortUrl, loading, error, inflight, res>>
    /\ UNCHANGED adminVars

\* writeText rejects: the second callback of .then
WriteRejected ==
    /\ writes # <<>>
    /\ writes' = Tail(writes)
    /\ copySuccess' = CopyFailedMsg
    /\ staleRevert' = FALSE
    /\ UNCHANGED <<longUrl, shortUrl, loading, error, inflight, res,
                   clipboard, timers>>
    /\ UNCHANGED adminVars

\* One second passes.  A timer that is due may still be waiting for the
\* event loop: setTimeout promises no earlier than, not exactly at.
Tick ==
    /\ \E i \in 1..Len(timers) : timers[i] > 0
    /\ timers' = [i \in 1..Len(timers) |->
                     IF timers[i] > 0 THEN timers[i] - 1 ELSE 0]
    /\ UNCHANGED <<longUrl, shortUrl, loading, error, copySuccess, inflight,
                   res, writes, clipboard, staleRevert>>
    /\ UNCHANGED adminVars

\* () => setCopySuccess(''): the oldest timer is due and runs.  While
\* copySuccess is "Copied!", the timer of the copy that set it is the
\* youngest one.
TimerFires ==
    /\ timers # <<>>
    /\ Head(timers) = 0
    /\ timers' = Tail(timers)
    /\ copySuccess' = ""
    /\ staleRevert' = /\ copySuccess = CopiedMsg
                      /\ Len(timers) > 1
                      /\ timers[Len(timers)] > 0
    /\ UNCHANGED <<longUrl, shortUrl, loading, error, inflight, res, writes,
                   clipboard>>
    /\ UNCHANGED adminVars

(* ----------------------------- AdminPage ------------------------------ *)
\* useEffect(..., []): fetchUrls up to its await
fetchUrls ==
    /\ adminGet = "unsent"
    /\ adminGet' = "pending"
    /\ UNCHANGED <<urls, adminLoading, adminError, adminRes>>
    /\ UNCHANGED formVars

\* The await resolves: the try branch, then finally.
GetResolve(r) ==
    /\ adminGet = "pending"
    /\ adminGet' = "settled"
    /\ adminRes' = r
    /\ IF ArrayIsArray(r.data)
         THEN urls' = r.data.items /\ UNCHANGED adminError
         ELSE adminError' = FormatMsg /\ UNCHANGED urls
    /\ adminLoading' = FALSE
    /\ UNCHANGED formVars

\* The await rejects: the catch branch, then finally.
GetReject(r) ==
    /\ adminGet = "pending"
    /\ adminGet' = "settled"
    /\ adminRes' = r
    /\ adminError' = FetchMsg
    /\ adminLoading' = FALSE
    /\ UNCHANGED urls
    /\ UNCHANGED formVars

\* What AdminPage renders from its state (App.js 158-195).
EmptyRow ==
    [key |-> "", colSpan |-> "3",
     cells |-> <<"No links have been shortened yet.">>]
UrlRow(u) ==
    [key |-> u._id, colSpan |-> "1",
     cells |-> <<u.originalUrl, u.shortUrl, u.clicks>>]
\* (variant: the table body is urls.map(...) alone)
AdminRender_NoEmptyRow ==
    IF adminLoading
      THEN [view |-> "loading", text |-> "Loading analytics...", rows |-> <<>>]
    ELSE IF adminError # ""
      THEN [view |-> "error", text |-> adminError, rows |-> <<>>]
    ELSE [view |-> "table", text |-> "Link Analytics",
          rows |-> [i \in 1..Len(urls) |-> UrlRow(urls[i])]]
AdminRender ==
    IF adminLoading
      THEN [view |-> "loading", text |-> "Loading analytics...", rows |-> <<>>]
    ELSE IF adminError # ""
      THEN [view |-> "error", text |-> adminError, rows |-> <<>>]
    ELSE [view |-> "table", text |-> "Link Analytics",
          rows |-> IF Len(urls) > 0
                     THEN [i \in 1..Len(urls) |-> UrlRow(urls[i])]
                     ELSE <<EmptyRow>>]

(* ------------------------------- Next --------------------------------- *)
Next ==
    \/ \E v \in LongUrls : setLongUrl(v)
    \/ handleSubmit
    \/ \E r \in PostResolutions : PostResolve(r)
    \/ \E r \in PostRejections : PostReject(r)
    \/ copyToClipboard
    \/ WriteFulfilled
    \/ WriteRejected
    \/ Tick
    \/ TimerFires
    \/ fetchUrls
    \/ \E r \in GetResolutions : GetResolve(r)
    \/ \E r \in GetRejections : GetReject(r)

Spec == Init /\ [][Next]_vars

\* The event loop runs every callback that is ready, and time passes: a
\* settled clipboard promise has its callback run, a timer that is due
\* fires.  Nothing obliges the user to act or the network to answer.
FairSpec ==
    /\ Spec
    /\ WF_vars(WriteFulfilled \/ WriteRejected)
    /\ WF_vars(Tick)
    /\ WF_vars(TimerFires)

(* ------------------------------ claims -------------------------------- *)
PostFailed == res.kind \in {"non2xx", "network"}
HasShortUrl(d) == d.type = "object" /\ d.shortUrl.defined

\* C1: handleSubmit with an empty longUrl issues no POST and leaves the
\* validation error set, the result absent and loading false.
C1_EmptySubmitIsLocal ==
    [][(handleSubmit /\ longUrl = "") =>
          /\ inflight' = inflight
          /\ error' = ValidationMsg
          /\ shortUrl' = JsNull
          /\ ~ShowsResult'
          /\ ~loading']_vars

\* an empty submission made after an earlier result had been copied
C1_Witness ==
    /\ error = ValidationMsg
    /\ longUrl = ""
    /\ clipboard # ""
    /\ inflight = <<>>

\* C2: in every reachable state at most one of result (shortUrl non-null)
\* and error (non-empty) is populated.
C2_ResultXorError == ~(shortUrl # JsNull /\ error # "")

\* a result on display after submission, delivery, copies, timer expiries
\* and an edit of the input have all taken place
C2_Witness ==
    /\ shortUrl # JsNull
    /\ error = ""
    /\ staleRevert
    /\ longUrl = ""

\* C3: once the POST of a non-empty longUrl has resolved with a body that
\* carries a shortUrl, the stored result is that body, the error is absent
\* and loading is false.
C3_SuccessStoresBody ==
    (res.kind = "2xx" /\ HasShortUrl(res.data)) =>
        /\ shortUrl = res.data
        /\ shortUrl.shortUrl = res.data.shortUrl
        /\ error = ""
        /\ ~loading

\* a resolved POST whose body carries a shortUrl and more
C3_Witness ==
    /\ res.kind = "2xx"
    /\ HasShortUrl(res.data)
    /\ res.data.rest = "more"
    /\ shortUrl = res.data

\* C4: once the POST of a non-empty longUrl has failed (transport error or
\* non-2xx status), the error is the generic message, loading is false and
\* the result is absent, also after an earlier success.
C4_FailureClearsResult ==
    PostFailed =>
        /\ error = FailMsg
        /\ ~loading
        /\ shortUrl = JsNull
        /\ ~ShowsResult

\* a failed POST after an earlier result had been copied
C4_Witness ==
    /\ res.kind = "non2xx"
    /\ clipboard \in ShortUrls

\* C5: a 2xx answer whose body is empty or an object without shortUrl is
\* treated as a failure: generic error stored, result absent, not loading.
C5_MalformedBodyIsFailure ==
    (res.kind = "2xx" /\ ~HasShortUrl(res.data)) =>
        /\ error = FailMsg
        /\ shortUrl = JsNull
        /\ ~loading

\* C6: after a copy completes the acknowledgment is "Copied!" on success
\* and "Failed to copy!" on failure, and in both cases it reverts to absent
\* without any further user action.
C6_AckAlwaysReverts ==
    /\ [][(WriteFulfilled => copySuccess' = CopiedMsg)
           /\ (WriteRejected => copySuccess' = CopyFailedMsg)]_vars
    /\ (copySuccess # "") ~> (copySuccess = "")

\* C7: copyToClipboard cancels no pending revert: a timer leaves the set of
\* pending timers only by firing, and when it fires it clears whatever
\* acknowledgment is shown.  (That a later "Copied!" is thereby cleared
\* early is the reachable state C7_Witness.)
C7_NoRevertCancelled ==
    [][(timers' # timers) =>
          \/ /\ Len(timers') = Len(timers) + 1
             /\ SubSeq(timers', 1, Len(timers)) = timers
          \/ /\ Len(timers') = Len(timers)
             /\ \A i \in 1..Len(timers) : timers'[i] <= timers[i]
          \/ /\ timers' = Tail(timers)
             /\ Head(timers) = 0
             /\ copySuccess' = ""]_vars

\* the timer of an earlier copy has just cleared the "Copied!" of a later
\* one, whose own timer still has time left
C7_Witness ==
    /\ staleRevert
    /\ copySuccess = ""
    /\ timers # <<>>
    /\ timers[Len(timers)] > 0

\* C8: once the GET has resolved with a body that is not an array, the
\* error is the format message, the list is still empty, loading is false
\* and no record row is rendered.
C8_NonArrayIsFormatError ==
    (adminRes.kind = "2xx" /\ ~adminRes.data.isArray) =>
        /\ adminError = FormatMsg
        /\ urls = <<>>
        /\ ~adminLoading
        /\ AdminRender.view = "error"
        /\ AdminRender.text = FormatMsg
        /\ AdminRender.rows = <<>>

\* a non-array body that wraps records
C8_Witness ==
    /\ adminRes.kind = "2xx"
    /\ ~adminRes.data.isArray
    /\ Len(adminRes.data.items) = MaxRecords

\* C9: once the GET has resolved with the empty array the page is not
\* loading, has no error and renders the empty-state row; the empty-state
\* row is rendered only when not loading, without error and with an empty
\* list; and a non-empty array is rendered as one row per record, in the
\* order the server gave.
C9_EmptyStateAndOrder ==
    LET rows == AdminRender.rows
        got == adminRes.data.items
    IN  /\ (adminRes.kind = "2xx" /\ adminRes.data.isArray /\ got = <<>>) =>
              /\ ~adminLoading
              /\ adminError = ""
              /\ AdminRender.view = "table"
              /\ rows = <<EmptyRow>>
        /\ (\E i \in 1..Len(rows) : rows[i] = EmptyRow) =>
              /\ ~adminLoading
              /\ adminError = ""
              /\ urls = <<>>
        /\ (adminRes.kind = "2xx" /\ adminRes.data.isArray /\ got # <<>>) =>
              /\ AdminRender.view = "table"
              /\ Len(rows) = Len(got)
              /\ \A i \in 1..Len(got) :
                    /\ rows[i].key = got[i]._id
                    /\ rows[i].cells =
                          <<got[i].originalUrl, got[i].shortUrl, got[i].clicks>>

\* the empty array has been delivered
C9_Witness ==
    /\ adminRes.kind = "2xx"
    /\ adminRes.data.isArray
    /\ adminRes.data.items = <<>>
    /\ AdminRender.rows = <<EmptyRow>>

\* C10: while loading, result and error are absent, the submit control is
\* disabled and exactly one request is outstanding; a step taken while
\* loading either keeps loading and issues no request, or is the delivery
\* of the response, which ends in Success (body stored, no error) or in
\* Failed (generic error, no result); from there a submission of a
\* non-empty longUrl is possible and enters Loading again.
C10_LoadingUntilDelivery ==
    /\ [](loading =>
            /\ shortUrl = JsNull
            /\ error = ""
            /\ SubmitDisabled
            /\ Len(inflight) = 1)
    /\ [][loading =>
            \/ /\ loading'
               /\ inflight' = inflight
            \/ /\ ~loading'
               /\ inflight' = <<>>
               /\ \/ /\ res'.kind = "2xx"
                     /\ shortUrl' = res'.data
                     /\ error' = ""
                  \/ /\ res'.kind \in {"non2xx", "network"}
                     /\ error' = FailMsg
                     /\ shortUrl' = JsNull]_vars
    /\ []((~loading /\ res # NoRes) => ENABLED handleSubmit)
    /\ [][(handleSubmit /\ longUrl # "") =>
            (loading' /\ Len(inflight') = Len(inflight) + 1)]_vars

\* still loading after the input was emptied and a copy issued before the
\* submission completed
C10_Witness ==
    /\ loading
    /\ longUrl = ""
    /\ copySuccess = CopiedMsg
    /\ timers # <<>>

=============================================================================
